---------------------------- MODULE Spec2Model ----------------------------
(***************************************************************************)
(* Model of the Proof-of-Work chain synchronisation driver, PoWSync        *)
(* (sync_pow.cpp): resume, forward_and_insert_blocks, execution_loop and   *)
(* the announcement helpers, together with the collaborators it drives:    *)
(* the fork-choice view, the block exchange and the execution engine.      *)
(***************************************************************************)
EXTENDS Integers, Sequences, FiniteSets, TLC

VARIABLES
    pc,                 \* position of the driver thread inside execution_loop
    stop,               \* is_stopping(): the cooperative stop flag
    is_starting_up,     \* local of execution_loop
    is_first_sync_,     \* member of PoWSync
    chain_fork_view_,   \* member of PoWSync: the fork-choice view
    new_height,         \* local of execution_loop: NewHeight {number, hash}
    verification,       \* local of execution_loop: the verdict of validate_chain
    block_progress,     \* local of forward_and_insert_blocks
    blocks,             \* local of forward_and_insert_blocks: the popped batch
    announcements_to_do,\* local of forward_and_insert_blocks
    queue,              \* block exchange: result_queue()
    downloading,        \* block exchange: between download_blocks and stop_downloading
    pushed,             \* block exchange: number of batches produced so far
    engine_known,       \* execution engine: hashes of the blocks it has inserted
    engine_progress,    \* execution engine: block_progress()
    engine_head,        \* execution engine: last_fork_choice()
    fatal,              \* the exception that ended execution_loop, if any
    events,             \* history: the calls made in the current iteration, in order
    fwd_exit,           \* history: why the last forward loop was left
    exit_seen,          \* history: what the exchange reported at the check that left it
    pass_start,         \* history: view head and progress at the start of the forward pass,
                        \* and the blocks the pass parked from single-block batches
    first_sync_cycles,  \* history: completed verify cycles run with is_first_sync_ true
    fwd_verified,       \* history: a verify cycle that followed a forward pass has completed
    stop_raised_at      \* history: where the driver was when stop was requested

vars == <<pc, stop, is_starting_up, is_first_sync_, chain_fork_view_, new_height,
          verification, block_progress, blocks, announcements_to_do, queue,
          downloading, pushed, engine_known, engine_progress, engine_head, fatal,
          events, fwd_exit, exit_seen, pass_start, first_sync_cycles, fwd_verified,
          stop_raised_at>>

-----------------------------------------------------------------------------
(* Bounds of the model *)

MaxBatches == 2      \* batches the exchange produces in one run
MaxCount == 3        \* the history counters saturate here

(* The all-zero hash of a default-constructed ChainHead *)
ZeroHash == 0

Min(a, b) == IF a < b THEN a ELSE b
Max(a, b) == IF a > b THEN a ELSE b

-----------------------------------------------------------------------------
(* The headers of the run.  1 is the genesis; 2 and 3 extend it; 4 and 5 are *)
(* siblings of 2 with a larger difficulty, whose total difficulty equals     *)
(* that of 3 and of each other; 6 is a hash that belongs to no block.        *)

BlockHashes == 1..5
AllHashes == 1..6

Header(h) ==
    CASE h = 1 -> [hash |-> 1, parent_hash |-> ZeroHash, number |-> 0, difficulty |-> 0]
      [] h = 2 -> [hash |-> 2, parent_hash |-> 1, number |-> 1, difficulty |-> 1]
      [] h = 3 -> [hash |-> 3, parent_hash |-> 2, number |-> 2, difficulty |-> 1]
      [] h = 4 -> [hash |-> 4, parent_hash |-> 1, number |-> 1, difficulty |-> 2]
      [] h = 5 -> [hash |-> 5, parent_hash |-> 1, number |-> 1, difficulty |-> 2]

Block(h, a) == [header |-> Header(h), to_announce |-> a]

(* The batches the exchange may deliver *)
BatchPool ==
    { <<Block(2, TRUE), Block(3, FALSE)>>,
      <<Block(3, FALSE)>>,
      <<Block(4, TRUE)>>,
      <<Block(5, FALSE)>> }

RECURSIVE SeqMaxNumber(_)
SeqMaxNumber(bs) ==
    IF bs = <<>> THEN 0
    ELSE Max(Head(bs).header.number, SeqMaxNumber(Tail(bs)))

HashesOf(bs) == { bs[i].header.hash : i \in 1..Len(bs) }

-----------------------------------------------------------------------------
(* History: one entry per call the driver makes on a collaborator *)

Ev(op, h, bs, hs, f) == [op |-> op, hash |-> h, blocks |-> bs, hashes |-> hs, flag |-> f]

Has(log, op) == \E i \in 1..Len(log) : log[i].op = op
Count(log, op) == Cardinality({ i \in 1..Len(log) : log[i].op = op })
Pos(log, op) == CHOOSE i \in 1..Len(log) : log[i].op = op /\ \A j \in 1..(i-1) : log[j].op # op

-----------------------------------------------------------------------------
(* The fork-choice view (ChainForkView).  entries maps the hash of every     *)
(* linked header to its number and cumulative total difficulty; parked holds *)
(* the headers whose parent is not linked; best is the current-best pointer. *)

RECURSIVE ChainTd(_)
ChainTd(h) ==
    IF h \notin BlockHashes THEN 0
    ELSE ChainTd(Header(h).parent_hash) + Header(h).difficulty

ChainHeadOf(h) == [number |-> Header(h).number, hash |-> h, total_difficulty |-> ChainTd(h)]

DefaultChainHead == [number |-> 0, hash |-> ZeroHash, total_difficulty |-> 0]

reset_head(head) ==
    [entries |-> (head.hash :> [number |-> head.number, td |-> head.total_difficulty]),
     parked  |-> {},
     best    |-> head.hash]

Better_NoTieBreak(e1, h1, e2, h2) == e1.td > e2.td

(* the fork-choice rule: larger total difficulty, then lower number, then smaller hash *)
Better(e1, h1, e2, h2) ==
    \/ e1.td > e2.td
    \/ e1.td = e2.td /\ e1.number < e2.number
    \/ e1.td = e2.td /\ e1.number = e2.number /\ h1 < h2

Link(v, header) ==
    LET e == [number |-> header.number,
              td |-> v.entries[header.parent_hash].td + header.difficulty]
    IN [entries |-> (header.hash :> e) @@ v.entries,
        parked  |-> v.parked \ {header},
        best    |-> IF Better(e, header.hash, v.entries[v.best], v.best)
                    THEN header.hash ELSE v.best]

RECURSIVE LinkParked(_)
LinkParked(v) ==
    LET ready == { p \in v.parked : p.parent_hash \in DOMAIN v.entries }
    IN IF ready = {} THEN v
       ELSE LET p == CHOOSE x \in ready : \A y \in ready : x.hash <= y.hash
            IN LinkParked(Link(v, p))

add_LinksOrphans(v, header) ==
    IF header.hash \in DOMAIN v.entries THEN v
    ELSE LET e == [number |-> header.number,
                   td |-> (IF header.parent_hash \in DOMAIN v.entries
                           THEN v.entries[header.parent_hash].td ELSE 0) + header.difficulty]
         IN [entries |-> (header.hash :> e) @@ v.entries,
             parked  |-> v.parked,
             best    |-> IF Better(e, header.hash, v.entries[v.best], v.best)
                         THEN header.hash ELSE v.best]

(* a header is unknown to the view when it is neither linked nor parked *)
Stored(v) == DOMAIN v.entries \cup { p.hash : p \in v.parked }

add(v, header) ==
    IF header.hash \in DOMAIN v.entries THEN v
    ELSE IF header.parent_hash \in DOMAIN v.entries THEN LinkParked(Link(v, header))
    ELSE [v EXCEPT !.parked = @ \cup {header}]

RECURSIVE add_all(_, _)
add_all(v, hs) == IF hs = <<>> THEN v ELSE add_all(add(v, Head(hs)), Tail(hs))

head_height(v) == v.entries[v.best].number
head_hash(v) == v.best

HeadersOf(bs) == [i \in 1..Len(bs) |-> bs[i].header]

-----------------------------------------------------------------------------
(* The execution engine (execution::Client), by its interface *)

(* what the engine may hold when the driver starts: an empty database, a     *)
(* chain whose head is its last block, a database with blocks beyond the     *)
(* canonical head, and a database whose progress is behind its head          *)
EngineStates ==
    { [known |-> {1},          head |-> 1, progress |-> 0],
      [known |-> {1, 2},       head |-> 2, progress |-> 1],
      [known |-> {1, 2, 3, 4}, head |-> 2, progress |-> 2],
      [known |-> {1, 2},       head |-> 2, progress |-> 0] }

last_fork_choice == ChainHeadOf(engine_head)

Key(h) == Header(h).number * (Cardinality(AllHashes) + 1) + h

RECURSIVE Ascending(_)
Ascending(S) ==
    IF S = {} THEN <<>>
    ELSE LET m == CHOOSE x \in S : \A y \in S : Key(x) <= Key(y)
         IN <<Header(m)>> \o Ascending(S \ {m})

Reverse(q) == [i \in 1..Len(q) |-> q[Len(q) + 1 - i]]

(* get_last_headers(n): the engine's headers, oldest first or newest first *)
get_last_headers == { Ascending(engine_known), Reverse(Ascending(engine_known)) }

get_block_num(h) ==
    IF h \in engine_known THEN [has_value |-> TRUE, value |-> Header(h).number]
    ELSE [has_value |-> FALSE, value |-> 0]

NoVerdict == [kind |-> "none", head |-> ZeroHash, bad_headers |-> {}, missing_block |-> ZeroHash]

(* the heads a verdict on target may name: the target, the genesis, a hash of no block *)
VerdictHeads(target) == {target, 1, 6}

(* the verdicts validate_chain(target) may return *)
Verdicts(target) ==
    { [kind |-> "ValidChain", head |-> h, bad_headers |-> {}, missing_block |-> ZeroHash]
        : h \in VerdictHeads(target) }
    \cup { [kind |-> "InvalidChain", head |-> h, bad_headers |-> bad, missing_block |-> ZeroHash]
        : h \in VerdictHeads(target), bad \in {{}, {target}} }
    \cup { [kind |-> "ValidationError", head |-> h, bad_headers |-> {}, missing_block |-> m]
        : h \in {1}, m \in {5, 6} }

NoFatal == [kind |-> "none", head |-> ZeroHash, missing_block |-> ZeroHash]
Fatal(kind, h, m) == [kind |-> kind, head |-> h, missing_block |-> m]

-----------------------------------------------------------------------------
(* PoWSync *)

(* the value is_first_sync_ is constructed with *)
InitialFirstSync == TRUE

(* in_sync() and current_height() are not read when the loop stops on is_stopping() *)
NotSeen == [in_sync |-> FALSE, current_height |-> 0]

to_BlockId(v) == [number |-> head_height(v), hash |-> head_hash(v)]

Init ==
    /\ pc = "start"
    /\ stop = FALSE
    /\ is_starting_up = TRUE
    /\ is_first_sync_ = InitialFirstSync
    /\ chain_fork_view_ = reset_head(DefaultChainHead)
    /\ new_height = [number |-> 0, hash |-> ZeroHash]
    /\ verification = NoVerdict
    /\ block_progress = 0
    /\ blocks = <<>>
    /\ announcements_to_do = <<>>
    /\ queue = <<>>
    /\ downloading = FALSE
    /\ pushed = 0
    /\ \E e \in EngineStates :
         /\ engine_known = e.known
         /\ engine_head = e.head
         /\ engine_progress = e.progress
    /\ fatal = NoFatal
    /\ events = <<>>
    /\ fwd_exit = "none"
    /\ exit_seen = NotSeen
    /\ pass_start = [number |-> 0, hash |-> ZeroHash, progress |-> 0, parked |-> {},
                     singles |-> {}]
    /\ first_sync_cycles = 0
    /\ fwd_verified = FALSE
    /\ stop_raised_at = "none"

Locals == <<block_progress, blocks, announcements_to_do>>
Exchange == <<queue, downloading, pushed>>
Engine == <<engine_known, engine_progress, engine_head>>
Cycles == <<first_sync_cycles, fwd_verified>>
Stop == <<stop, stop_raised_at>>
ExitObs == <<fwd_exit, exit_seen>>

(* execution_loop, before the loop: hand the exchange its starting point *)
ExecutionLoopStart ==
    /\ pc = "start"
    /\ \E last_headers \in get_last_headers :
         events' = Append(events, Ev("initial_state", ZeroHash, <<>>,
                                     { last_headers[i].hash : i \in 1..Len(last_headers) }, FALSE))
    /\ pc' = "loop_head"
    /\ UNCHANGED <<Stop, is_starting_up, is_first_sync_, chain_fork_view_, new_height,
                   verification, Locals, Exchange, Engine, fatal, ExitObs, pass_start, Cycles>>

(* while (!is_stopping()) *)
LoopHead ==
    /\ pc = "loop_head"
    /\ IF stop THEN /\ pc' = "done"
                    /\ UNCHANGED events
       ELSE /\ pc' = IF is_starting_up THEN "resume" ELSE "forward"
            /\ events' = <<>>
    /\ UNCHANGED <<Stop, is_starting_up, is_first_sync_, chain_fork_view_, new_height,
                   verification, Locals, Exchange, Engine, fatal, ExitObs, pass_start, Cycles>>

ResumeInvariant_Unchecked(head, progress) == TRUE

(* ensure_invariant(height(head) <= block_progress, ...) *)
ResumeInvariant(head, progress) == head.number <= progress

CanonicalHeadUpToDate_Always(head, progress) == TRUE

(* if (block_progress == height(head)) return head; *)
CanonicalHeadUpToDate(head, progress) == progress = head.number

(* resume(): find the head where the previous run left off *)
Resume ==
    /\ pc = "resume"
    /\ LET head == last_fork_choice
           progress == engine_progress
           calls == <<Ev("last_fork_choice", head.hash, <<>>, {}, FALSE),
                      Ev("block_progress", progress, <<>>, {}, FALSE)>>
       IN IF ~ResumeInvariant(head, progress)
          THEN /\ chain_fork_view_' = reset_head(head)
               /\ fatal' = Fatal("canonical head beyond block progress", head.hash, ZeroHash)
               /\ events' = events \o calls
               /\ pc' = "aborted"
               /\ UNCHANGED new_height
          ELSE IF CanonicalHeadUpToDate(head, progress)
          THEN /\ chain_fork_view_' = reset_head(head)
               /\ new_height' = [number |-> head.number, hash |-> head.hash]
               /\ events' = events \o calls
               /\ pc' = "got_height"
               /\ UNCHANGED fatal
          ELSE \E prev_headers \in get_last_headers :
               /\ chain_fork_view_' = add_all(reset_head(head), prev_headers)
               /\ new_height' = to_BlockId(chain_fork_view_')
               /\ events' = events \o calls \o
                    <<Ev("get_last_headers", ZeroHash, prev_headers, {}, FALSE)>>
               /\ pc' = "got_height"
               /\ UNCHANGED fatal
    /\ UNCHANGED <<Stop, is_starting_up, is_first_sync_, verification, Locals, Exchange,
                   Engine, ExitObs, pass_start, Cycles>>

NothingToVerify_Never(height) == FALSE

(* if (new_height.number == 0): there is no chain to verify *)
NothingToVerify(height) == height.number = 0

(* if (new_height.number == 0) { is_starting_up = false; continue; } *)
CheckHeight ==
    /\ pc = "got_height"
    /\ IF NothingToVerify(new_height)
       THEN /\ is_starting_up' = FALSE
            /\ pc' = "loop_head"
       ELSE /\ pc' = "validate"
            /\ UNCHANGED is_starting_up
    /\ UNCHANGED <<Stop, is_first_sync_, chain_fork_view_, new_height, verification, Locals,
                   Exchange, Engine, fatal, events, ExitObs, pass_start, Cycles>>

(* forward_and_insert_blocks(), up to the loop *)
ForwardStart ==
    /\ pc = "forward"
    /\ block_progress' = engine_progress
    /\ downloading' = TRUE
    /\ events' = events \o <<Ev("block_progress", engine_progress, <<>>, {}, FALSE),
                             Ev("download_blocks", engine_progress, <<>>, {}, FALSE)>>
    /\ pass_start' = [number |-> head_height(chain_fork_view_),
                      hash |-> head_hash(chain_fork_view_),
                      progress |-> engine_progress,
                      parked |-> { h.hash : h \in chain_fork_view_.parked },
                      singles |-> {}]
    /\ fwd_exit' = "none"
    /\ exit_seen' = NotSeen
    /\ blocks' = <<>>
    /\ announcements_to_do' = <<>>
    /\ pc' = "fwd_head"
    /\ UNCHANGED <<Stop, is_starting_up, is_first_sync_, chain_fork_view_, new_height,
                   verification, queue, pushed, Engine, fatal, Cycles>>

Numbers == 0..3

ForwardLoopContinues_IgnoresStop(stopping, in_sync, progress, current_height) ==
    ~(in_sync /\ progress = current_height)

ForwardLoopContinues_InSyncOnly(stopping, in_sync, progress, current_height) ==
    ~stopping /\ ~in_sync

(* the condition of the forward loop *)
ForwardLoopContinues(stopping, in_sync, progress, current_height) ==
    ~stopping /\ ~(in_sync /\ progress = current_height)

ForwardLoopHead ==
    /\ pc = "fwd_head"
    /\ \E in_sync \in BOOLEAN, current_height \in Numbers :
         IF ForwardLoopContinues(stop, in_sync, block_progress, current_height)
         THEN /\ pc' = "fwd_wait"
              /\ UNCHANGED ExitObs
         ELSE /\ pc' = "fwd_exit"
              /\ fwd_exit' = IF stop THEN "stop" ELSE "in_sync"
              /\ exit_seen' = IF stop THEN NotSeen
                               ELSE [in_sync |-> in_sync,
                                     current_height |-> IF in_sync THEN current_height ELSE 0]
    /\ UNCHANGED <<Stop, is_starting_up, is_first_sync_, chain_fork_view_, new_height,
                   verification, Locals, Exchange, Engine, fatal, events, pass_start, Cycles>>

(* timed_wait_and_pop finds no batch within 100ms *)
TimedWaitTimeout ==
    /\ pc = "fwd_wait"
    /\ queue = <<>>
    /\ pc' = "fwd_head"
    /\ UNCHANGED <<Stop, is_starting_up, is_first_sync_, chain_fork_view_, new_height,
                   verification, Locals, Exchange, Engine, fatal, events, ExitObs,
                   pass_start, Cycles>>

send_new_block_announcements_NoEmptyCheck(bs, first_sync) ==
    <<Ev("OutboundNewBlock", ZeroHash, bs, {}, first_sync)>>

(* send_new_block_announcements(blocks) *)
send_new_block_announcements(bs, first_sync) ==
    IF bs = <<>> THEN <<>>
    ELSE <<Ev("OutboundNewBlock", ZeroHash, bs, {}, first_sync)>>

BatchCalls_AnnounceFirst(bs, to_do, first_sync, inserted) ==
    send_new_block_announcements(to_do, first_sync)
    \o <<Ev("insert_blocks", ZeroHash, bs, {}, inserted)>>

(* the calls of one turn of the forward loop, once the batch is in the view *)
BatchCalls(bs, to_do, first_sync, inserted) ==
    <<Ev("insert_blocks", ZeroHash, bs, {}, inserted)>>
    \o (IF inserted THEN send_new_block_announcements(to_do, first_sync) ELSE <<>>)

(* a batch of one block whose parent the view has not seen *)
SingleUnknownParent(batch, v) ==
    /\ Len(batch) = 1
    /\ batch[1].header.hash \notin Stored(v)
    /\ batch[1].header.parent_hash \notin Stored(v)

(* timed_wait_and_pop returns a batch: the body of the forward loop *)
ProcessBatch ==
    /\ pc = "fwd_wait"
    /\ queue # <<>>
    /\ LET batch == Head(queue)
           to_do == SelectSeq(batch, LAMBDA b : b.to_announce)
       IN /\ queue' = Tail(queue)
          /\ blocks' = batch
          /\ announcements_to_do' = to_do
          /\ chain_fork_view_' = add_all(chain_fork_view_, HeadersOf(batch))
          /\ block_progress' = Max(block_progress, SeqMaxNumber(batch))
          /\ \E inserted \in BOOLEAN :
               /\ events' = events \o BatchCalls(batch, to_do, is_first_sync_, inserted)
               /\ IF inserted
                  THEN /\ engine_known' = engine_known \cup HashesOf(batch)
                       /\ engine_progress' = Max(engine_progress, SeqMaxNumber(batch))
                       /\ pc' = "fwd_head"
                       /\ UNCHANGED fatal
                  ELSE /\ fatal' = Fatal("insert_blocks failed", ZeroHash, ZeroHash)
                       /\ pc' = "aborted"
                       /\ UNCHANGED <<engine_known, engine_progress>>
    /\ pass_start' = [pass_start EXCEPT !.singles =
                         @ \cup (IF SingleUnknownParent(Head(queue), chain_fork_view_)
                                 THEN HashesOf(Head(queue)) ELSE {})]
    /\ UNCHANGED <<Stop, is_starting_up, is_first_sync_, new_height, verification,
                   downloading, pushed, engine_head, ExitObs, Cycles>>

ForwardResult_Default(v) == [number |-> 0, hash |-> ZeroHash]

(* the NewHeight forward_and_insert_blocks returns *)
ForwardResult(v) == [number |-> head_height(v), hash |-> head_hash(v)]

ForwardExit_KeepsDownloading ==
    /\ pc = "fwd_exit"
    /\ new_height' = ForwardResult(chain_fork_view_)
    /\ pc' = "got_height"
    /\ UNCHANGED <<Stop, is_starting_up, is_first_sync_, chain_fork_view_, verification,
                   Locals, Exchange, Engine, fatal, events, ExitObs, pass_start, Cycles>>

(* forward_and_insert_blocks(), after the loop *)
ForwardExit ==
    /\ pc = "fwd_exit"
    /\ downloading' = FALSE
    /\ events' = Append(events, Ev("stop_downloading", ZeroHash, <<>>, {}, FALSE))
    /\ new_height' = ForwardResult(chain_fork_view_)
    /\ pc' = "got_height"
    /\ UNCHANGED <<Stop, is_starting_up, is_first_sync_, chain_fork_view_, verification,
                   Locals, queue, pushed, Engine, fatal, ExitObs, pass_start, Cycles>>

(* validate_chain(new_height.hash): BLOCKING *)
ValidateChain ==
    /\ pc = "validate"
    /\ \E v \in Verdicts(new_height.hash) : verification' = v
    /\ events' = Append(events, Ev("validate_chain", new_height.hash, <<>>, {}, FALSE))
    /\ pc' = "verdict"
    /\ UNCHANGED <<Stop, is_starting_up, is_first_sync_, chain_fork_view_, new_height,
                   Locals, Exchange, Engine, fatal, ExitObs, pass_start, Cycles>>

ValidChainInvariant_Unchecked(valid_chain, height) == TRUE

(* ensure_invariant(valid_chain.current_head == new_height.hash, ...) *)
ValidChainInvariant(valid_chain, height) == valid_chain.head = height.hash

(* send_new_block_hash_announcements() *)
send_new_block_hash_announcements(first_sync) ==
    <<Ev("OutboundNewBlockHashes", ZeroHash, <<>>, {}, first_sync)>>

ValidChainCalls_AnnounceFirst(height, first_sync) ==
    send_new_block_hash_announcements(first_sync)
    \o <<Ev("update_fork_choice", height.hash, <<>>, {}, FALSE)>>

(* the calls of the ValidChain branch *)
ValidChainCalls(height, first_sync) ==
    <<Ev("update_fork_choice", height.hash, <<>>, {}, FALSE)>>
    \o send_new_block_hash_announcements(first_sync)

ValidChain ==
    /\ pc = "verdict"
    /\ verification.kind = "ValidChain"
    /\ IF ~ValidChainInvariant(verification, new_height)
       THEN /\ fatal' = Fatal("Invalid verify_chain result", verification.head, ZeroHash)
            /\ pc' = "aborted"
            /\ UNCHANGED <<events, engine_head>>
       ELSE /\ events' = events \o ValidChainCalls(new_height, is_first_sync_)
            /\ engine_head' = new_height.hash
            /\ pc' = "cycle_end"
            /\ UNCHANGED fatal
    /\ UNCHANGED <<Stop, is_starting_up, is_first_sync_, chain_fork_view_, new_height,
                   verification, Locals, Exchange, engine_known, engine_progress,
                   ExitObs, pass_start, Cycles>>

LatestValidInvariant_Unchecked(latest_valid_height) == TRUE

(* ensure_invariant(latest_valid_height.has_value(), ...) *)
LatestValidInvariant(latest_valid_height) == latest_valid_height.has_value

unwind_ResetsView(v) == reset_head(DefaultChainHead)

(* unwind(UnwindPoint, bad_block): does nothing *)
unwind(v) == v

(* update_bad_headers(bad_headers): an internal message for the exchange *)
update_bad_headers(bad_headers) ==
    <<Ev("update_bad_headers", ZeroHash, <<>>, bad_headers, FALSE)>>

InvalidChainCalls_ForkChoiceFirst(invalid_chain) ==
    <<Ev("unwind", invalid_chain.head, <<>>, {}, FALSE),
      Ev("update_fork_choice", invalid_chain.head, <<>>, {}, FALSE)>>
    \o update_bad_headers(invalid_chain.bad_headers)

(* the calls of the InvalidChain branch that follow the invariant *)
InvalidChainCalls(invalid_chain) ==
    <<Ev("unwind", invalid_chain.head, <<>>, {}, FALSE)>>
    \o (IF invalid_chain.bad_headers # {}
        THEN update_bad_headers(invalid_chain.bad_headers) ELSE <<>>)
    \o <<Ev("update_fork_choice", invalid_chain.head, <<>>, {}, FALSE)>>

InvalidChain ==
    /\ pc = "verdict"
    /\ verification.kind = "InvalidChain"
    /\ LET latest_valid_height == get_block_num(verification.head)
           asked == Ev("get_block_num", verification.head, <<>>, {}, latest_valid_height.has_value)
       IN IF ~LatestValidInvariant(latest_valid_height)
          THEN /\ fatal' = Fatal("Invalid latest_valid_head", verification.head, ZeroHash)
               /\ events' = Append(events, asked)
               /\ pc' = "aborted"
               /\ UNCHANGED <<engine_head, chain_fork_view_>>
          ELSE /\ events' = Append(events, asked) \o InvalidChainCalls(verification)
               /\ chain_fork_view_' = unwind(chain_fork_view_)
               /\ engine_head' = verification.head
               /\ pc' = "cycle_end"
               /\ UNCHANGED fatal
    /\ UNCHANGED <<Stop, is_starting_up, is_first_sync_, new_height, verification, Locals,
                   Exchange, engine_known, engine_progress, ExitObs, pass_start, Cycles>>

ValidationError_Recovered ==
    /\ pc = "verdict"
    /\ verification.kind = "ValidationError"
    /\ events' = Append(events, Ev("update_fork_choice", verification.head, <<>>, {}, FALSE))
    /\ pc' = "cycle_end"
    /\ UNCHANGED <<Stop, is_starting_up, is_first_sync_, chain_fork_view_, new_height,
                   verification, Locals, Exchange, Engine, fatal, ExitObs, pass_start,
                   Cycles>>

(* throw std::logic_error("Consensus, validation error, ...") *)
ValidationError ==
    /\ pc = "verdict"
    /\ verification.kind = "ValidationError"
    /\ fatal' = Fatal("Consensus, validation error", verification.head,
                      verification.missing_block)
    /\ pc' = "aborted"
    /\ UNCHANGED <<Stop, is_starting_up, is_first_sync_, chain_fork_view_, new_height,
                   verification, Locals, Exchange, Engine, events, ExitObs, pass_start,
                   Cycles>>

NextIsFirstSync_Negated(starting_up) == ~starting_up

(* is_first_sync_ = is_starting_up *)
NextIsFirstSync(starting_up) == starting_up

(* the end of a verify cycle *)
CycleEnd ==
    /\ pc = "cycle_end"
    /\ is_first_sync_' = NextIsFirstSync(is_starting_up)
    /\ is_starting_up' = FALSE
    /\ first_sync_cycles' = IF is_first_sync_ THEN Min(first_sync_cycles + 1, MaxCount)
                            ELSE first_sync_cycles
    /\ fwd_verified' = (fwd_verified \/ ~is_starting_up)
    /\ pc' = "loop_head"
    /\ UNCHANGED <<Stop, chain_fork_view_, new_height, verification, Locals, Exchange,
                   Engine, fatal, events, ExitObs, pass_start>>

-----------------------------------------------------------------------------
(* The environment *)

(* stop() is requested from another thread *)
RequestStop ==
    /\ ~stop
    /\ pc \notin {"done", "aborted"}
    /\ stop' = TRUE
    /\ stop_raised_at' = IF pc = "fwd_wait" THEN "fwd_wait" ELSE "elsewhere"
    /\ UNCHANGED <<pc, is_starting_up, is_first_sync_, chain_fork_view_, new_height,
                   verification, Locals, Exchange, Engine, fatal, events, ExitObs,
                   pass_start, Cycles>>

(* the block exchange delivers a batch of downloaded blocks *)
ExchangePush ==
    /\ downloading
    /\ pc \notin {"done", "aborted"}
    /\ pushed < MaxBatches
    /\ \E batch \in BatchPool : queue' = Append(queue, batch)
    /\ pushed' = pushed + 1
    /\ UNCHANGED <<pc, Stop, is_starting_up, is_first_sync_, chain_fork_view_, new_height,
                   verification, Locals, downloading, Engine, fatal, events, ExitObs,
                   pass_start, Cycles>>

Driver ==
    \/ ExecutionLoopStart
    \/ LoopHead
    \/ Resume
    \/ CheckHeight
    \/ ForwardStart
    \/ ForwardLoopHead
    \/ TimedWaitTimeout
    \/ ProcessBatch
    \/ ForwardExit
    \/ ValidateChain
    \/ ValidChain
    \/ InvalidChain
    \/ ValidationError
    \/ CycleEnd

Next == Driver \/ RequestStop \/ ExchangePush

Spec == Init /\ [][Next]_vars

(* every call the driver waits on returns, and the driver thread keeps running *)
FairSpec == Spec /\ WF_vars(Driver)

-----------------------------------------------------------------------------
(* Properties *)

IsMessage(e) == e.op \in {"OutboundNewBlock", "OutboundNewBlockHashes"}

InsertCalls(log) == { i \in 1..Len(log) : log[i].op = "insert_blocks" }
AddedHashes(log) == UNION { HashesOf(log[i].blocks) : i \in InsertCalls(log) }
MaxAdded(log) ==
    LET S == { SeqMaxNumber(log[i].blocks) : i \in InsertCalls(log) }
    IN CHOOSE m \in S : \A x \in S : x <= m

ForwardPassDone ==
    pc = "got_height" /\ Has(events, "stop_downloading") /\ Has(events, "insert_blocks")

(* C1, as claimed: at most one completed verify cycle runs with is_first_sync true *)
C1_AtMostOneFirstSyncCycle == first_sync_cycles <= 1

(* C1, amended: is_first_sync is true until the first verify cycle that follows a    *)
(* forward pass completes and false afterwards, so at most two completed verify      *)
(* cycles run with it true (the one after resume and the first one after a forward   *)
(* pass); every message of an iteration carries the flag's value; once false the     *)
(* flag never becomes true again.                                                    *)
C1_FirstSyncUntilForwardVerified ==
    /\ [](/\ first_sync_cycles <= 2
          /\ is_first_sync_ = ~fwd_verified
          /\ pc \notin {"loop_head", "done"} =>
               \A i \in 1..Len(events) : IsMessage(events[i]) => events[i].flag = is_first_sync_)
    /\ [][~is_first_sync_ => ~is_first_sync_']_vars

C1_Witness == first_sync_cycles = 2 /\ ~is_first_sync_ /\ Has(events, "OutboundNewBlock")

(* C2: when stop is raised while the forward pass waits on the queue, the driver     *)
(* leaves execution_loop without a validate_chain after the stop was observed.       *)
C2_NoValidateAfterStopInWait ==
    (stop_raised_at = "fwd_wait" /\ fwd_exit = "stop") => ~Has(events, "validate_chain")

(* C3: every update_fork_choice names a hash the engine has acknowledged: known at   *)
(* resume or inserted by a completed insert_blocks.                                  *)
C3_ForkChoiceOnlyForInserted ==
    \A i \in 1..Len(events) :
        events[i].op = "update_fork_choice" => events[i].hash \in engine_known

C3_Witness ==
    /\ verification.kind = "InvalidChain"
    /\ Has(events, "update_fork_choice")
    /\ Has(events, "insert_blocks")

(* C4: OutboundNewBlockHashes is emitted only on a ValidChain verdict, right after   *)
(* update_fork_choice for the hash that validate_chain was given; a ValidChain cycle *)
(* that completes has emitted it.                                                    *)
C4_HashesAfterForkChoice ==
    /\ \A i \in 1..Len(events) :
         events[i].op = "OutboundNewBlockHashes" =>
           /\ verification.kind = "ValidChain"
           /\ i > 2
           /\ events[i-1].op = "update_fork_choice"
           /\ events[i-2].op = "validate_chain"
           /\ events[i-1].hash = events[i-2].hash
           /\ events[i-1].hash = new_height.hash
    /\ (pc = "cycle_end" /\ verification.kind = "ValidChain") =>
         events[Len(events)].op = "OutboundNewBlockHashes"

C4_Witness == pc = "cycle_end" /\ Has(events, "OutboundNewBlockHashes")

(* C5: OutboundNewBlock follows the insert_blocks of its own batch, which returned,  *)
(* and precedes validate_chain; a failed insert_blocks is followed by nothing.       *)
C5_NewBlockAfterInsert ==
    /\ \A i \in 1..Len(events) :
         events[i].op = "OutboundNewBlock" =>
           /\ i > 1
           /\ events[i-1].op = "insert_blocks"
           /\ events[i-1].flag
           /\ HashesOf(events[i].blocks) \subseteq HashesOf(events[i-1].blocks)
           /\ \A j \in 1..i : events[j].op # "validate_chain"
    /\ \A i \in 1..Len(events) :
         (events[i].op = "insert_blocks" /\ ~events[i].flag) =>
           i = Len(events) /\ pc = "aborted"

C5_Witness == Has(events, "OutboundNewBlock") /\ Has(events, "validate_chain")

(* C6: a resolved InvalidChain verdict is handled by get_block_num, unwind, the bad  *)
(* headers if there are any, update_fork_choice(latest_valid_head), in this order,   *)
(* and without OutboundNewBlockHashes.                                               *)
C6_InvalidChainOrder ==
    (pc = "cycle_end" /\ verification.kind = "InvalidChain") =>
      LET k == Pos(events, "validate_chain")
          h == verification.head
          bad == verification.bad_headers
      IN /\ SubSeq(events, k + 1, Len(events)) =
              <<Ev("get_block_num", h, <<>>, {}, TRUE),
                Ev("unwind", h, <<>>, {}, FALSE)>>
              \o (IF bad # {} THEN <<Ev("update_bad_headers", ZeroHash, <<>>, bad, FALSE)>>
                  ELSE <<>>)
              \o <<Ev("update_fork_choice", h, <<>>, {}, FALSE)>>
         /\ ~Has(events, "OutboundNewBlockHashes")

C6_Witness ==
    /\ pc = "cycle_end"
    /\ verification.kind = "InvalidChain"
    /\ Has(events, "update_bad_headers")

(* C7: an accepted ValidChain verdict names the hash validate_chain was given; one   *)
(* that names another hash aborts the driver before update_fork_choice and before    *)
(* OutboundNewBlockHashes.                                                           *)
C7_ValidChainHeadMatches ==
    (verification.kind = "ValidChain" /\ Has(events, "validate_chain")) =>
      LET asked == events[Pos(events, "validate_chain")].hash
      IN /\ Has(events, "update_fork_choice") => verification.head = asked
         /\ verification.head # asked =>
              /\ pc \in {"verdict", "aborted"}
              /\ pc = "aborted" => fatal.kind = "Invalid verify_chain result"
              /\ ~Has(events, "update_fork_choice")
              /\ ~Has(events, "OutboundNewBlockHashes")

C7_Witness == pc = "aborted" /\ fatal.kind = "Invalid verify_chain result"

(* C8, as claimed: after a forward pass the head height returned equals the maximum  *)
(* block number added during the pass.                                               *)
C8_HeadHeightIsMaxAdded ==
    ForwardPassDone => new_height.number = MaxAdded(events)

(* C8, amended: after a forward pass the local block_progress is the maximum of the  *)
(* engine's progress at the start and the block numbers added, and NewHeight names   *)
(* the head of the view, which is the head before the pass, a header added during    *)
(* it, or a header parked before it; its number may differ from the maximum added.   *)
C8_HeadAmongAdded ==
    ForwardPassDone =>
      /\ block_progress = Max(pass_start.progress, MaxAdded(events))
      /\ block_progress >= pass_start.progress
      /\ new_height.number = head_height(chain_fork_view_)
      /\ new_height.hash = head_hash(chain_fork_view_)
      /\ new_height.hash \in {pass_start.hash} \cup pass_start.parked \cup AddedHashes(events)
      /\ new_height.number = Header(new_height.hash).number

C8_Witness == ForwardPassDone /\ new_height.number < MaxAdded(events)

(* C9: once stop is requested the driver eventually leaves execution_loop.           *)
C9_StopLeadsToExit == stop ~> (pc \in {"done", "aborted"})

C9_Witness == pc = "done" /\ fwd_exit = "stop" /\ Has(events, "validate_chain")

(* C10: when resume finds the canonical head beyond block progress the driver aborts *)
(* there: no head is returned and no call follows the two reads of resume.           *)
C10_ResumeAbortsBeyondProgress ==
    /\ (is_starting_up /\ pc \in {"got_height", "validate", "verdict"}) =>
         Header(engine_head).number <= engine_progress
    /\ fatal.kind = "canonical head beyond block progress" =>
         /\ pc = "aborted"
         /\ Header(engine_head).number > engine_progress
         /\ events = <<Ev("last_fork_choice", engine_head, <<>>, {}, FALSE),
                       Ev("block_progress", engine_progress, <<>>, {}, FALSE)>>
         /\ new_height = [number |-> 0, hash |-> ZeroHash]
         /\ ~downloading

C10_Witness == pc = "aborted" /\ fatal.kind = "canonical head beyond block progress"

(* C11: resume returns the engine's head itself, without get_last_headers, when      *)
(* block_progress equals its height; otherwise it feeds get_last_headers(128) to the *)
(* view in arrival order and returns the head of the view.                           *)
C11_ResumeReturnsHead ==
    (is_starting_up /\ pc = "got_height") =>
      LET head == last_fork_choice
      IN IF engine_progress = head.number
         THEN /\ new_height = [number |-> head.number, hash |-> head.hash]
              /\ chain_fork_view_ = reset_head(head)
              /\ ~Has(events, "get_last_headers")
         ELSE /\ engine_progress > head.number
              /\ Count(events, "get_last_headers") = 1
              /\ chain_fork_view_ =
                   add_all(reset_head(head), events[Pos(events, "get_last_headers")].blocks)
              /\ new_height = [number |-> head_height(chain_fork_view_),
                               hash |-> head_hash(chain_fork_view_)]

C11_Witness ==
    /\ is_starting_up
    /\ pc = "got_height"
    /\ Has(events, "get_last_headers")
    /\ new_height.hash # engine_head

(* C12: an iteration whose new height has number 0 issues no validate_chain, no      *)
(* update_fork_choice and no OutboundNewBlockHashes, clears is_starting_up, and the  *)
(* iteration that follows it is a forward pass; resume never runs again.             *)
C12_EmptyHeadSkipsVerification ==
    /\ [](new_height.number = 0 =>
            /\ pc \notin {"validate", "verdict", "cycle_end"}
            /\ ~Has(events, "validate_chain")
            /\ ~Has(events, "update_fork_choice")
            /\ ~Has(events, "OutboundNewBlockHashes"))
    /\ [][(pc = "got_height" /\ new_height.number = 0 /\ pc' # pc) =>
            (pc' = "loop_head" /\ ~is_starting_up')]_vars
    /\ [][(pc = "loop_head" /\ ~is_starting_up /\ pc' # pc) =>
            (IF stop THEN pc' = "done" ELSE pc' = "forward")]_vars
    /\ [][~is_starting_up => ~is_starting_up']_vars

C12_Witness ==
    pc = "forward" /\ new_height.number = 0 /\ fwd_exit = "in_sync"

(* C13: a ValidationError verdict aborts the driver with an error that carries       *)
(* latest_valid_head and missing_block; no call follows validate_chain.              *)
C13_ValidationErrorIsFatal ==
    verification.kind = "ValidationError" =>
      /\ pc \in {"verdict", "aborted"}
      /\ events[Len(events)].op = "validate_chain"
      /\ pc = "aborted" =>
           fatal = Fatal("Consensus, validation error", verification.head,
                         verification.missing_block)

C13_Witness ==
    /\ pc = "aborted"
    /\ fatal.kind = "Consensus, validation error"
    /\ fatal.missing_block = 6
    /\ Has(events, "stop_downloading")

ForwardReturned == pc = "got_height" /\ Has(events, "stop_downloading")

(* C14: the current-best pointer of the view names the linked entry with the largest *)
(* total difficulty; among equals the lower number wins, then the smaller hash.      *)
C14_BestIsMaximal ==
    LET e == chain_fork_view_.entries
        b == chain_fork_view_.best
    IN /\ b \in DOMAIN e
       /\ \A h \in DOMAIN e \ {b} :
            \/ e[b].td > e[h].td
            \/ e[b].td = e[h].td /\ e[b].number < e[h].number
            \/ e[b].td = e[h].td /\ e[b].number = e[h].number /\ b < h

C14_Witness ==
    /\ {3, 5} \subseteq DOMAIN chain_fork_view_.entries
    /\ chain_fork_view_.best = 5
    /\ pass_start.hash = 3

(* C15, as claimed: the NewHeight of a forward pass never names a block that the     *)
(* pass parked from a single-block batch with an unknown parent.                     *)
C15_ParkedNeverReturned ==
    ForwardReturned => new_height.hash \notin pass_start.singles

(* C15, amended: a single-block batch whose parent is unknown to the view is taken   *)
(* without failure and leaves the head of the view as it was right after the batch;  *)
(* the NewHeight of the pass names that block only if a later batch of the pass      *)
(* delivered its parent.                                                             *)
C15_ParkedLeavesHead ==
    /\ [][(/\ pc = "fwd_wait"
            /\ queue # <<>>
            /\ SingleUnknownParent(Head(queue), chain_fork_view_)
            /\ pc' # pc) =>
           (/\ head_hash(chain_fork_view_') = head_hash(chain_fork_view_)
            /\ head_height(chain_fork_view_') = head_height(chain_fork_view_)
            /\ Head(queue)[1].header \in chain_fork_view_'.parked
            /\ fatal'.kind \in {"none", "insert_blocks failed"})]_vars
    /\ [](ForwardReturned =>
            \A h \in pass_start.singles :
                new_height.hash = h => Header(h).parent_hash \in AddedHashes(events))

C15_Witness ==
    /\ ForwardReturned
    /\ pass_start.singles # {}
    /\ new_height.hash = pass_start.hash
    /\ new_height.number > 0

(* C16: the forward loop is left only on the stop flag or on a check that finds the  *)
(* exchange in sync at a current height equal to block_progress, which is the        *)
(* maximum of the engine's progress at the start and the numbers of the popped       *)
(* blocks; a wait that times out changes nothing and calls nothing.                  *)
C16_ForwardLoopExit ==
    /\ []((pc = "fwd_exit" \/ ForwardReturned) =>
            \/ fwd_exit = "stop" /\ stop
            \/ /\ fwd_exit = "in_sync"
               /\ exit_seen.in_sync
               /\ exit_seen.current_height = block_progress)
    /\ []((pc \in {"fwd_head", "fwd_wait", "fwd_exit"} \/ ForwardReturned) =>
            block_progress = IF Has(events, "insert_blocks")
                             THEN Max(pass_start.progress, MaxAdded(events))
                             ELSE pass_start.progress)
    /\ [][(pc = "fwd_wait" /\ queue = <<>> /\ pc' # pc) =>
            (/\ pc' = "fwd_head"
             /\ UNCHANGED <<block_progress, chain_fork_view_, events, engine_known,
                            engine_progress>>)]_vars

C16_Witness ==
    /\ pc = "fwd_exit"
    /\ fwd_exit = "in_sync"
    /\ ~stop
    /\ Count(events, "insert_blocks") = 2
    /\ block_progress > pass_start.progress

(* C17: an InvalidChain verdict whose latest_valid_head the engine cannot resolve     *)
(* aborts the driver right after get_block_num: no unwind, no bad headers for the    *)
(* exchange, no update_fork_choice.                                                  *)
C17_UnresolvedHeadIsFatal ==
    /\ (verification.kind = "InvalidChain" /\ verification.head \notin engine_known) =>
         pc \in {"verdict", "aborted"}
    /\ fatal.kind = "Invalid latest_valid_head" =>
         /\ pc = "aborted"
         /\ verification.kind = "InvalidChain"
         /\ events[Len(events)] =
              Ev("get_block_num", verification.head, <<>>, {}, FALSE)
         /\ events[Len(events) - 1].op = "validate_chain"
         /\ ~Has(events, "unwind")
         /\ ~Has(events, "update_bad_headers")
         /\ ~Has(events, "update_fork_choice")

C17_Witness ==
    /\ pc = "aborted"
    /\ fatal.kind = "Invalid latest_valid_head"
    /\ verification.bad_headers # {}

Flagged(bs) == SelectSeq(bs, LAMBDA b : b.to_announce)

C19_DownloadBracketsPass ==
    /\ Count(events, "download_blocks") <= 1
    /\ Count(events, "stop_downloading") <= 1
    /\ Has(events, "download_blocks") =>
         /\ events[1] = Ev("block_progress", pass_start.progress, <<>>, {}, FALSE)
         /\ events[2] = Ev("download_blocks", pass_start.progress, <<>>, {}, FALSE)
    /\ downloading = (pc \in {"fwd_head", "fwd_wait", "fwd_exit"}
                      \/ (pc = "aborted" /\ fatal.kind = "insert_blocks failed"))
    /\ downloading = (Has(events, "download_blocks") /\ ~Has(events, "stop_downloading"))
    /\ ForwardReturned => events[Len(events)].op = "stop_downloading"
    /\ \A i \in 1..Len(events) :
         events[i].op \in {"validate_chain", "update_fork_choice"} =>
           /\ \A j \in i..Len(events) :
                events[j].op \notin {"download_blocks", "stop_downloading", "insert_blocks"}
           /\ Has(events, "download_blocks") => Has(events, "stop_downloading")

C19_Witness ==
    /\ pc = "cycle_end"
    /\ Has(events, "stop_downloading")
    /\ Has(events, "insert_blocks")
    /\ Has(events, "update_fork_choice")

(* C20: handling an InvalidChain verdict leaves the view as it was: after the cycle  *)
(* its head is still the head that was declared invalid, and a following forward     *)
(* pass that adds no header returns that head again.                                 *)
C20_InvalidChainKeepsView ==
    /\ [][(pc = "verdict" /\ verification.kind = "InvalidChain") =>
            chain_fork_view_' = chain_fork_view_]_vars
    /\ []((verification.kind = "InvalidChain" /\ pc \in {"cycle_end", "loop_head", "forward"}) =>
            /\ head_hash(chain_fork_view_) = new_height.hash
            /\ head_height(chain_fork_view_) = new_height.number)
    /\ [][(/\ pc = "fwd_exit"
            /\ verification.kind = "InvalidChain"
            /\ pc' # pc) =>
           (\/ new_height' = new_height
            \/ new_height'.hash \in AddedHashes(events) \cup pass_start.parked)]_vars
    /\ [][(/\ pc = "fwd_exit"
            /\ verification.kind = "InvalidChain"
            /\ ~Has(events, "insert_blocks")
            /\ pc' # pc) => new_height' = new_height]_vars

C20_Witness ==
    /\ ForwardReturned
    /\ verification.kind = "InvalidChain"
    /\ new_height.hash = pass_start.hash
    /\ new_height.number > 0
    /\ Has(events, "insert_blocks")

=============================================================================
